---- MODULE Spec2Model ----
(***************************************************************************)
(* The job dispatch and retry engine of the transcript profanity service   *)
(* (src/main.go, the current version at lines 1-300): HTTP handlers submit *)
(* jobs to a buffered queue, a fixed pool of workers resolves each job     *)
(* over a language fallback list with a shared ticker as rate limiter and  *)
(* a retry loop with exponential backoff, and writes one response to the   *)
(* job's private channel.                                                  *)
(*                                                                         *)
(* Time is discrete, one unit per second.  The model keeps no absolute     *)
(* clock: the ticker's phase, the remaining sleep of each worker and the   *)
(* ages of recent events are advanced by the action Tick.                  *)
(*                                                                         *)
(* Strings whose content the code inspects (error messages, response       *)
(* errors) are modelled by the set of the inspected substrings ("markers") *)
(* they contain, lowercased as the code lowercases them.                   *)
(***************************************************************************)
EXTENDS Integers, Sequences, FiniteSets

\* ------------------------------------------------------------- bounds
\* Number of HTTP requests of the concurrent scenarios.
NumRequests == 2
\* Longest prefix of scripted adapter outcomes before the steady outcome.
MaxScript == 2
\* Longest time window (seconds) over which rate-limited events are remembered.
MaxWindow == 2
\* Number of requests arriving while the job queue is full.
NumBlocked == 2

\* ------------------------------------------------- program constants
maxWorkers == 5
QueueCap == 100
TickInterval == 2
maxRetries == 3
RespChanCap == 1
TickChanCap == 1

DefaultLanguages ==
    << "en", "en-US", "en-GB", "en-CA", "en-AU", "en-IN",
       "es", "es-ES", "es-MX", "es-AR",
       "fr", "fr-FR", "fr-CA",
       "de", "de-DE",
       "it", "it-IT",
       "pt", "pt-BR", "pt-PT",
       "ja", "ko", "zh", "zh-CN", "zh-TW",
       "hi", "ar", "ru", "nl", "sv", "no", "da", "fi" >>

\* ------------------------------------------------------------- inputs
VideoIDs == {"abc123", "xyz"}
\* The lang query parameter; "" is an absent parameter.
LangParams == {"", "en", "fr"}

\* The word list loaded at startup (lowercased by loadProfanityWords).
profanityWords == {"damn"}

ToLower(word) ==
    CASE word = "Damn" -> "damn"
      [] word = "Hello" -> "hello"
      [] OTHER -> word

\* Transcripts the upstream can hold: the formatted text as its sequence of
\* whitespace-separated fields, and whether the formatter fails on it.
CleanTranscript == [text |-> <<"Hello", "world">>, formatErr |-> FALSE]
FlaggedTranscript == [text |-> <<"well", "Damn">>, formatErr |-> FALSE]
BrokenTranscript == [text |-> <<>>, formatErr |-> TRUE]

\* Adapter outcomes: (transcripts, err) of client.GetTranscripts.
ErrOf(markers) == [err |-> TRUE, msg |-> markers, transcripts |-> <<>>]
OkOf(ts) == [err |-> FALSE, msg |-> {}, transcripts |-> ts]

Outcomes ==
    { ErrOf({"timeout"}),
      ErrOf({"captions not found"}),
      ErrOf({"private"}),
      ErrOf({}),
      OkOf(<<>>),
      OkOf(<<CleanTranscript>>),
      OkOf(<<FlaggedTranscript, CleanTranscript>>),
      OkOf(<<BrokenTranscript>>) }

RECURSIVE SeqsUpTo(_, _)
SeqsUpTo(S, n) ==
    IF n = 0 THEN { <<>> }
    ELSE LET shorter == SeqsUpTo(S, n - 1)
         IN  shorter \cup { Append(s, x) : s \in shorter, x \in S }

\* The upstream service: a scripted prefix of outcomes, answered one per
\* call, and the outcome it answers with from then on.
HealthyOutcomes ==
    { OkOf(<<CleanTranscript>>), OkOf(<<FlaggedTranscript, CleanTranscript>>) }

\* A bounded disturbance followed by a healthy upstream, or a permanent condition.
Profiles ==
    [script : SeqsUpTo(Outcomes, MaxScript), steady : HealthyOutcomes]
        \cup [script : { <<>> }, steady : Outcomes]

\* ------------------------------------------------------------- state
VARIABLES
    upstream,      \* the upstream service's behaviour (environment)
    handlers,      \* getTranscriptHandler invocations, per request
    jobQueue,      \* the buffered channel of jobs
    respChan,      \* the response channel of each request
    workers,       \* the worker goroutines' local state
    rateLimiter,   \* the ticker: buffered ticks and phase within the period
    delivered,     \* history: every response written, per response channel
    queueLog,      \* history: the jobs sent to the queue and the jobs
                   \* received from it, each in the order it happened
    recent         \* history: acquisitions and adapter calls of the last
                   \* MaxWindow seconds, oldest first, with their ages

vars == << upstream, handlers, jobQueue, respChan, workers, rateLimiter,
           delivered, queueLog, recent >>

Workers == 1 .. maxWorkers
Requests == DOMAIN handlers

\* ------------------------------------------------------------- values
NoError == [set |-> FALSE, msg |-> {}]
ErrorOf(msg) == [set |-> TRUE, msg |-> msg]

\* response.Error: "" or a message built from one of the code's templates.
EmptyString == [tmpl |-> "", msg |-> {}]

NoJob == [id |-> 0, VideoID |-> "", Languages |-> <<>>, Response |-> 0]

IdleWorker ==
    [ pc |-> "idle", job |-> NoJob, languagesToTry |-> <<>>, li |-> 0,
      attempt |-> 0, lastError |-> NoError, foundTranscript |-> FALSE,
      response |-> [VideoID |-> "", Profanity |-> FALSE, Error |-> EmptyString],
      timer |-> 0, delay |-> 0, trace |-> <<>> ]

\* ------------------------------------------------ the code's functions
Min(a, b) == IF a < b THEN a ELSE b

\* Mutant: the requested tags are tried as they are, without fallbacks.
LanguagesToTryAsGiven(languages) == languages

\* worker, lines 97-110: the fallback list of a job.
LanguagesToTry(languages) ==
    IF Len(languages) = 1 /\ languages[1] = "en"
    THEN DefaultLanguages
    ELSE languages

RECURSIVE Pow(_, _)
Pow(base, exp) == IF exp = 0 THEN 1 ELSE base * Pow(base, exp - 1)

\* Mutant: a fixed delay instead of the exponential one.
BackoffFixed(attempt) == 2

\* worker, line 127: the backoff delay in seconds.
Backoff(attempt) == Pow(2, attempt)

\* worker, lines 125-130: the sleep at the head of an iteration of the retry loop.
SleepBefore(attempt) == IF attempt > 0 THEN Backoff(attempt) ELSE 0

\* Mutant: one iteration too many.
RetryLoopGuardOffByOne(attempt) == attempt <= maxRetries

\* worker, line 124: the retry loop's condition.
RetryLoopGuard(attempt) == attempt < maxRetries

TransientMarkers == {"timeout", "connection", "network", "temporary"}

\* worker, lines 142-145.
IsTransient(errorStr) == errorStr \cap TransientMarkers # {}

\* worker, lines 151 and 195.
IsCaptionsNotFound(errorStr) == "captions not found" \in errorStr

\* worker, lines 197-199.
IsForbidden(errorStr) == "private" \in errorStr \/ "unavailable" \in errorStr

\* Mutant: "captions not found" is retried like any other error.
RetryDecisionNoSkip(errorStr, attempt) ==
    IF IsTransient(errorStr) THEN "continue"
    ELSE IF attempt < maxRetries - 1 THEN "continue"
    ELSE "break"

\* worker, lines 141-161: what the error branch does with the retry loop.
RetryDecision(errorStr, attempt) ==
    IF IsTransient(errorStr) THEN "continue"
    ELSE IF IsCaptionsNotFound(errorStr) THEN "break"
    ELSE IF attempt < maxRetries - 1 THEN "continue"
    ELSE "break"

\* Mutant: the text is not lowercased before the lookup.
containsProfanityExact(text) ==
    \E i \in 1 .. Len(text) : text[i] \in profanityWords

\* containsProfanity, lines 292-300, on the fields of the text.
containsProfanity(text) ==
    \E i \in 1 .. Len(text) : ToLower(text[i]) \in profanityWords

\* The inspected substrings a video identifier contains.
IdMarkers(videoID) ==
    CASE videoID = "private" -> {"private"}
      [] videoID = "unavailable" -> {"unavailable"}
      [] OTHER -> {}

\* worker, line 174: the message of a formatting failure.
FormatFailure == [tmpl |-> "Format", msg |-> {}]

\* Mutant: the generic message whatever the last error.
FailureMessageGeneric(videoID, lastError) ==
    [tmpl |-> "Failed", msg |-> lastError.msg \cup IdMarkers(videoID)]

\* worker, lines 192-207: the failure message of a job without transcript.
FailureMessage(videoID, lastError) ==
    IF lastError.set
    THEN IF IsCaptionsNotFound(lastError.msg)
         THEN [tmpl |-> "NoCaptions", msg |-> IdMarkers(videoID)]
         ELSE IF "private" \in lastError.msg
         THEN [tmpl |-> "Private", msg |-> {"private"} \cup IdMarkers(videoID)]
         ELSE IF "unavailable" \in lastError.msg
         THEN [tmpl |-> "Unavailable", msg |-> {"unavailable"} \cup IdMarkers(videoID)]
         ELSE [tmpl |-> "Failed", msg |-> lastError.msg \cup IdMarkers(videoID)]
    ELSE [tmpl |-> "NoneFound", msg |-> {"no transcripts"} \cup IdMarkers(videoID)]

\* getTranscriptHandler, lines 254-263: the status of an error response.
StatusCode(errorMsg) ==
    IF "no transcripts" \in errorMsg THEN 404
    ELSE IF "captions not found" \in errorMsg THEN 404
    ELSE IF "private" \in errorMsg \/ "unavailable" \in errorMsg THEN 403
    ELSE 500

\* getTranscriptHandler, lines 228-232.
RequestLanguages(langParam) ==
    IF langParam # "" THEN << langParam >> ELSE << "en" >>

\* Mutant: every response goes to the first request's channel.
ResponseSlotFirst(job) == 1

\* worker, line 211: the channel a job's response is sent on.
ResponseSlot(job) == job.Response

\* The category of an adapter outcome, from the code's tests in their order.
ClassOf(o) ==
    IF o.err
    THEN IF IsTransient(o.msg) THEN "Transient"
         ELSE IF IsCaptionsNotFound(o.msg) THEN "NotFound"
         ELSE IF IsForbidden(o.msg) THEN "Forbidden"
         ELSE "Other"
    ELSE IF Len(o.transcripts) = 0 THEN "Empty"
         ELSE IF o.transcripts[1].formatErr THEN "Unformattable"
         ELSE "Transcript"

\* ------------------------------------------- the worker's control flow
\* worker, lines 191-209: after the language loop.
Finish(wk) ==
    [ wk EXCEPT
        !.pc = "respond",
        !.response.Error =
            IF ~wk.foundTranscript /\ wk.response.Error = EmptyString
            THEN FailureMessage(wk.job.VideoID, wk.lastError)
            ELSE @ ]

\* worker, lines 186-189 and 117: the end of an iteration of the language loop.
NextLanguage(wk) ==
    IF wk.foundTranscript THEN Finish(wk)
    ELSE IF wk.li < Len(wk.languagesToTry)
         THEN [wk EXCEPT !.li = @ + 1, !.pc = "acquire"]
         ELSE Finish(wk)

\* Mutant: a retry waits at the rate limiter again.
NextAttemptThroughGate(wk) == [wk EXCEPT !.pc = "acquire"]

\* worker, lines 124-130: the next iteration of the retry loop, up to its sleep.
NextAttempt(wk) ==
    LET a == wk.attempt + 1
    IN  IF RetryLoopGuard(a)
        THEN [wk EXCEPT !.attempt = a, !.timer = SleepBefore(a), !.delay = SleepBefore(a)]
        ELSE NextLanguage([wk EXCEPT !.attempt = a])

\* worker, lines 135-183: the body of the retry loop after the adapter call.
AfterCall(wk, o) ==
    IF o.err
    THEN LET wk1 == [wk EXCEPT !.lastError = ErrorOf(o.msg)]
         IN  IF RetryDecision(o.msg, wk.attempt) = "continue"
             THEN NextAttempt(wk1)
             ELSE NextLanguage(wk1)
    ELSE IF Len(o.transcripts) > 0
         THEN LET t == o.transcripts[1]
              IN  IF t.formatErr
                  THEN NextLanguage([wk EXCEPT !.response.Error = FormatFailure])
                  ELSE NextLanguage([wk EXCEPT !.response.Profanity = containsProfanity(t.text),
                                               !.foundTranscript = TRUE])
         ELSE NextAttempt(wk)

\* worker, lines 91-117: a job taken from the queue, up to the first acquire.
StartJob(job) ==
    LET wk == [ IdleWorker EXCEPT
                  !.job = job,
                  !.response.VideoID = job.VideoID,
                  !.languagesToTry = LanguagesToTry(job.Languages),
                  !.li = 1,
                  !.pc = "acquire" ]
    IN  IF Len(wk.languagesToTry) = 0 THEN Finish(wk) ELSE wk

\* History of a job: the acquisitions of the rate limiter and the adapter
\* calls made for it, each call with the language index and attempt number,
\* the delay slept before it, the category of its outcome and the text of
\* the first transcript returned.
CallEvent(wk, o) ==
    [ev |-> "call", li |-> wk.li, attempt |-> wk.attempt, sleep |-> wk.delay,
     class |-> ClassOf(o),
     text |-> IF Len(o.transcripts) > 0 THEN o.transcripts[1].text ELSE <<>>]

AcquireEvent(wk) ==
    [ev |-> "acquire", li |-> wk.li, attempt |-> 0, sleep |-> 0, class |-> "",
     text |-> <<>>]

\* ------------------------------------------------------------- initial states
NewHandler(videoID, langParam) ==
    [pc |-> "start", videoID |-> videoID, lang |-> langParam, status |-> 0,
     body |-> [VideoID |-> "", Profanity |-> FALSE, Error |-> EmptyString]]

InitFor(n, profiles, videoIDs, langParams) ==
    /\ upstream \in profiles
    /\ handlers \in [1 .. n -> {NewHandler(v, l) : v \in videoIDs, l \in langParams}]
    /\ jobQueue = <<>>
    /\ respChan = [h \in 1 .. n |-> <<>>]
    /\ workers = [w \in Workers |-> IdleWorker]
    /\ rateLimiter = [C |-> 0, phase |-> 0]
    /\ delivered = [h \in 1 .. n |-> <<>>]
    /\ queueLog = [accepted |-> <<>>, dequeued |-> <<>>]
    /\ recent = <<>>

\* One request, any upstream behaviour.
Init == InitFor(1, Profiles, {"abc123"}, LangParams)

\* ------------------------------------------------------------- actions
\* Mutant: the queue takes one job more than its capacity.
QueueHasRoomOneMore(queue) == Len(queue) <= QueueCap

\* jobQueue, line 37, and the send of line 240: a send completes only while
\* the channel's buffer has room, and blocks otherwise.
QueueHasRoom(queue) == Len(queue) < QueueCap

\* getTranscriptHandler, lines 240-244: the job of a request.
NewJob(h) ==
    [id |-> h, VideoID |-> handlers[h].videoID,
     Languages |-> RequestLanguages(handlers[h].lang),
     Response |-> h]

\* Mutant: the newest job of the queue is received first.
DequeueNewest(queue) ==
    [job |-> queue[Len(queue)], rest |-> SubSeq(queue, 1, Len(queue) - 1)]

\* worker, line 91: a receive takes the oldest job of the channel's buffer.
Dequeue(queue) == [job |-> Head(queue), rest |-> Tail(queue)]

\* Mutant: a worker receives the next job whatever it is doing.
AtLoopHeadAlways(wk) == TRUE

\* worker, line 91: the worker receives its next job only at the head of
\* its loop, when the previous job has been answered.
AtLoopHead(wk) == wk.pc = "idle"

\* getTranscriptHandler, lines 228-244: build the job and send it to the queue.
Submit(h) ==
    /\ handlers[h].pc = "start"
    /\ QueueHasRoom(jobQueue)
    /\ jobQueue' = Append(jobQueue, NewJob(h))
    /\ queueLog' = [queueLog EXCEPT !.accepted = Append(@, h)]
    /\ handlers' = [handlers EXCEPT ![h].pc = "waiting"]
    /\ UNCHANGED << upstream, respChan, workers, rateLimiter, delivered, recent >>

\* getTranscriptHandler, lines 247-272: receive the response and answer.
Receive(h) ==
    /\ handlers[h].pc = "waiting"
    /\ respChan[h] # <<>>
    /\ LET response == Head(respChan[h])
       IN  handlers' = [handlers EXCEPT
                          ![h].pc = "done",
                          ![h].body = response,
                          ![h].status = IF response.Error # EmptyString
                                        THEN StatusCode(response.Error.msg)
                                        ELSE 200]
    /\ respChan' = [respChan EXCEPT ![h] = Tail(@)]
    /\ UNCHANGED << upstream, jobQueue, workers, rateLimiter, delivered, queueLog, recent >>

\* worker, lines 91-117: receive a job from the queue.
Take(w) ==
    /\ AtLoopHead(workers[w])
    /\ jobQueue # <<>>
    /\ workers' = [workers EXCEPT ![w] = StartJob(Dequeue(jobQueue).job)]
    /\ jobQueue' = Dequeue(jobQueue).rest
    /\ queueLog' = [queueLog EXCEPT !.dequeued = Append(@, Dequeue(jobQueue).job.id)]
    /\ UNCHANGED << upstream, handlers, respChan, rateLimiter, delivered, recent >>

\* worker, line 121: receive a tick from the rate limiter.
Acquire(w) ==
    /\ workers[w].pc = "acquire"
    /\ rateLimiter.C > 0
    /\ rateLimiter' = [rateLimiter EXCEPT !.C = @ - 1]
    /\ workers' = [workers EXCEPT
                     ![w].pc = "call",
                     ![w].attempt = 0,
                     ![w].timer = SleepBefore(0),
                     ![w].delay = SleepBefore(0),
                     ![w].trace = Append(@, AcquireEvent(workers[w]))]
    /\ recent' = Append(recent, [ev |-> "acquire", age |-> 0])
    /\ UNCHANGED << upstream, handlers, jobQueue, respChan, delivered, queueLog >>

\* worker, lines 132-189 (and 191-209 when the loops end): one adapter call,
\* after the sleep of lines 125-130, and everything up to the next blocking
\* operation.
Call(w) ==
    /\ workers[w].pc = "call"
    /\ workers[w].timer = 0
    /\ LET o == IF upstream.script # <<>> THEN Head(upstream.script) ELSE upstream.steady
           wk == [workers[w] EXCEPT !.trace = Append(@, CallEvent(workers[w], o))]
       IN  workers' = [workers EXCEPT ![w] = AfterCall(wk, o)]
    /\ upstream' = [upstream EXCEPT !.script = IF @ # <<>> THEN Tail(@) ELSE @]
    /\ recent' = Append(recent, [ev |-> "call", age |-> 0])
    /\ UNCHANGED << handlers, jobQueue, respChan, rateLimiter, delivered, queueLog >>

\* worker, line 211: send the response on the job's channel.
Respond(w) ==
    /\ workers[w].pc = "respond"
    /\ LET slot == ResponseSlot(workers[w].job)
       IN  /\ Len(respChan[slot]) < RespChanCap
           /\ respChan' = [respChan EXCEPT ![slot] = Append(@, workers[w].response)]
           /\ delivered' = [delivered EXCEPT
                              ![slot] = Append(@, [job |-> workers[w].job.id,
                                                   response |-> workers[w].response,
                                                   trace |-> workers[w].trace])]
    /\ workers' = [workers EXCEPT ![w] = IdleWorker]
    /\ UNCHANGED << upstream, handlers, jobQueue, rateLimiter, queueLog, recent >>

Aged(events) ==
    LET older == [i \in 1 .. Len(events) |-> [events[i] EXCEPT !.age = @ + 1]]
        InWindow(e) == e.age <= MaxWindow
    IN  SelectSeq(older, InWindow)

\* One second passes: the ticker of line 40 fires every TickInterval seconds
\* into its channel (a tick is dropped when the channel is full), and the
\* sleeping workers' delays run down.  A worker blocked in the receive of
\* line 121 gets a tick the moment it is sent, so no time passes while a tick
\* is buffered and a worker waits for one.
Tick ==
    /\ ~(rateLimiter.C > 0 /\ \E w \in Workers : workers[w].pc = "acquire")
    /\ LET phase == (rateLimiter.phase + 1) % TickInterval
       IN  rateLimiter' = [C |-> IF phase = 0
                                 THEN Min(rateLimiter.C + 1, TickChanCap)
                                 ELSE rateLimiter.C,
                           phase |-> phase]
    /\ workers' = [w \in Workers |->
                     [workers[w] EXCEPT !.timer = IF @ > 0 THEN @ - 1 ELSE 0]]
    /\ recent' = Aged(recent)
    /\ UNCHANGED << upstream, handlers, jobQueue, respChan, delivered, queueLog >>

Next ==
    \/ \E h \in Requests : Submit(h)
    \/ \E h \in Requests : Receive(h)
    \/ \E w \in Workers : Take(w)
    \/ \E w \in Workers : Acquire(w)
    \/ \E w \in Workers : Call(w)
    \/ \E w \in Workers : Respond(w)
    \/ Tick

Spec == Init /\ [][Next]_vars

\* Concurrent requests for single explicit language tags.
PoolProfiles ==
    [script : SeqsUpTo(Outcomes, 1), steady : HealthyOutcomes]
        \cup [script : { <<>> }, steady : Outcomes]

PoolInit == InitFor(NumRequests, PoolProfiles, VideoIDs, {"fr"})

PoolSpec == PoolInit /\ [][Next]_vars

\* Fair scheduling: time passes, the ticker keeps ticking, every adapter call
\* returns, and no goroutine that can run is held back for ever.  A worker
\* waiting at the rate limiter competes for each tick with the others, so
\* its acquisition is strongly fair.
Fairness ==
    /\ WF_vars(Tick)
    /\ \A w \in Workers :
          /\ WF_vars(Take(w))
          /\ SF_vars(Acquire(w))
          /\ WF_vars(Call(w))
          /\ WF_vars(Respond(w))

\* One request under a permanent upstream condition: every call times out,
\* no language has captions, or every call succeeds.
FairProfiles ==
    [script : { <<>> },
     steady : { ErrOf({"timeout"}), ErrOf({"captions not found"}),
                OkOf(<<CleanTranscript>>) }]

FairInit == InitFor(1, FairProfiles, {"abc123"}, {"", "fr"})

FairSpec == FairInit /\ [][Next]_vars /\ Fairness

\* One request while the upstream is degraded: at most one outcome of any
\* kind, then the same outcome of any kind for ever.
DegradedProfiles == [script : SeqsUpTo(Outcomes, 1), steady : Outcomes]

DegradedInit == InitFor(1, DegradedProfiles, {"abc123"}, {"", "fr"})

DegradedSpec == DegradedInit /\ [][Next]_vars

\* A full queue: QueueCap requests have been submitted and none received
\* yet, and NumBlocked more requests arrive.  The ticker has not fired, so
\* until time passes no worker gets beyond the receive of line 121: the
\* behaviours of this instant are the sends to the queue and the receives
\* from it.
QueueInit ==
    /\ upstream \in FairProfiles
    /\ handlers = [h \in 1 .. (QueueCap + NumBlocked) |->
                     [NewHandler("abc123", "fr") EXCEPT
                        !.pc = IF h <= QueueCap THEN "waiting" ELSE "start"]]
    /\ jobQueue = [h \in 1 .. QueueCap |-> NewJob(h)]
    /\ queueLog = [accepted |-> [h \in 1 .. QueueCap |-> h], dequeued |-> <<>>]
    /\ respChan = [h \in 1 .. (QueueCap + NumBlocked) |-> <<>>]
    /\ delivered = [h \in 1 .. (QueueCap + NumBlocked) |-> <<>>]
    /\ workers = [w \in Workers |-> IdleWorker]
    /\ rateLimiter = [C |-> 0, phase |-> 0]
    /\ recent = <<>>

QueueNext ==
    \/ \E h \in Requests : Submit(h)
    \/ \E w \in Workers : Take(w)

QueueSpec == QueueInit /\ [][QueueNext]_vars

\* ------------------------------------------------------------- properties
Trace(w) == workers[w].trace

IsCall(e) == e.ev = "call"

NumCalls(trace) == Cardinality({i \in 1 .. Len(trace) : IsCall(trace[i])})

\* The worker has produced the Result of its job and is about to send it.
HasResult(w) == workers[w].pc = "respond"

\* What follows the i-th event of worker w's job: the next event of the
\* history, or the worker's position when the event is the latest.
ThenAcquires(w, i, li) ==
    IF i < Len(Trace(w))
    THEN Trace(w)[i + 1].ev = "acquire" /\ Trace(w)[i + 1].li = li
    ELSE workers[w].pc = "acquire" /\ workers[w].li = li

ThenCalls(w, i, li, attempt) ==
    IF i < Len(Trace(w))
    THEN /\ IsCall(Trace(w)[i + 1])
         /\ Trace(w)[i + 1].li = li
         /\ Trace(w)[i + 1].attempt = attempt
    ELSE /\ workers[w].pc = "call"
         /\ workers[w].li = li
         /\ workers[w].attempt = attempt

ThenEnds(w, i) == i = Len(Trace(w)) /\ HasResult(w)

\* The worker leaves language li after event i: for the next language, or
\* for the end of the job when li is the last of the fallback list.
ThenNextLanguage(w, i, li) ==
    IF li < Len(workers[w].languagesToTry)
    THEN ThenAcquires(w, i, li + 1)
    ELSE ThenEnds(w, i)

\* C1: every job has exactly one Result, written to its own response
\* channel and carrying its identifier: each submitted job is in the queue,
\* with one worker, or answered once on its own channel, never elsewhere.
C1_OneResultPerJob ==
    \A h \in Requests :
        /\ Len(delivered[h]) <= 1
        /\ \A i \in 1 .. Len(delivered[h]) :
              /\ delivered[h][i].job = h
              /\ delivered[h][i].response.VideoID = handlers[h].videoID
        /\ Cardinality({i \in 1 .. Len(jobQueue) : jobQueue[i].id = h})
              + Cardinality({w \in Workers : workers[w].job.id = h})
              + Len(delivered[h])
           = IF handlers[h].pc = "start" THEN 0 ELSE 1
        /\ handlers[h].pc = "done" =>
              /\ Len(delivered[h]) = 1
              /\ handlers[h].body = delivered[h][1].response

C1_Witness ==
    /\ \A h \in Requests : handlers[h].pc = "done"
    /\ \E g, h \in Requests : handlers[g].videoID # handlers[h].videoID
    /\ \E g, h \in Requests :
          delivered[g][1].response.Error # delivered[h][1].response.Error

\* C2: under fair scheduling every job accepted into the queue eventually
\* has a Result on its response channel, after at most maxRetries adapter
\* calls for each language of its fallback list, and a worker that has taken
\* a job always comes back to take the next one.
C2_EveryJobAnswered ==
    /\ \A h \in 1 .. NumRequests :
          (h \in Requests /\ handlers[h].pc = "waiting" /\ delivered[h] = <<>>)
              ~> (h \in Requests /\ Len(delivered[h]) = 1)
    /\ \A w \in Workers : (workers[w].pc # "idle") ~> (workers[w].pc = "idle")
    /\ [](\A w \in Workers :
            /\ NumCalls(Trace(w)) <= maxRetries * workers[w].li
            /\ workers[w].li <= Len(workers[w].languagesToTry))

C2_Witness ==
    /\ \A w \in Workers : workers[w].pc = "idle"
    /\ \E h \in Requests :
          /\ Len(delivered[h]) = 1
          /\ delivered[h][1].response.Error # EmptyString
          /\ NumCalls(delivered[h][1].trace) = Len(DefaultLanguages) * maxRetries

\* C3: after an adapter call of a job fails with a Forbidden error, no
\* further adapter call is made for that job.
C3_ForbiddenShortCircuit ==
    \A w \in Workers : \A i \in 1 .. Len(Trace(w)) :
        (IsCall(Trace(w)[i]) /\ Trace(w)[i].class = "Forbidden") =>
            \A j \in (i + 1) .. Len(Trace(w)) : ~IsCall(Trace(w)[j])

\* C4: in any time window of W seconds, all workers together make at most
\* floor(W / 2s) + 1 adapter calls (windows of up to MaxWindow seconds).
CallsWithin(youngest, oldest) ==
    Cardinality({i \in 1 .. Len(recent) :
                    /\ IsCall(recent[i])
                    /\ youngest <= recent[i].age
                    /\ recent[i].age <= oldest})

C4_WindowBound ==
    \A a \in 0 .. MaxWindow : \A W \in 0 .. (MaxWindow - a) :
        CallsWithin(a, a + W) <= (W \div TickInterval) + 1

\* C5: any two acquisitions of the rate limiter, by any workers, are at
\* least the 2-second interval apart.
C5_GateSpacing ==
    \A i, j \in 1 .. Len(recent) :
        (i < j /\ recent[i].ev = "acquire" /\ recent[j].ev = "acquire") =>
            recent[i].age - recent[j].age >= TickInterval

\* C6: a language whose attempts all fail with a retryable error (Transient
\* or Other) gets exactly 3 adapter calls, the first without sleep, the
\* second after a 2-second and the third after a 4-second sleep, and then
\* the worker moves on to the next language.
Retryable(e) == IsCall(e) /\ e.class \in {"Transient", "Other"}

\* Event i is an attempt of a language all of whose attempts so far were
\* retryable failures.
OnlyRetryableUpTo(trace, i) ==
    /\ IsCall(trace[i])
    /\ i - trace[i].attempt >= 1
    /\ \A j \in (i - trace[i].attempt) .. i :
          Retryable(trace[j]) /\ trace[j].li = trace[i].li

C6_RetryPolicy ==
    \A w \in Workers : \A i \in 1 .. Len(Trace(w)) :
        OnlyRetryableUpTo(Trace(w), i) =>
            LET e == Trace(w)[i]
            IN  /\ e.attempt \in 0 .. 2
                /\ e.sleep = <<0, 2, 4>>[e.attempt + 1]
                /\ e.attempt = 0 => Trace(w)[i - 1].ev = "acquire"
                /\ e.attempt < 2 => ThenCalls(w, i, e.li, e.attempt + 1)
                /\ e.attempt = 2 => ThenNextLanguage(w, i, e.li)

C6_Witness ==
    \E w \in Workers :
        /\ workers[w].pc = "acquire"
        /\ workers[w].li = 2
        /\ Len(Trace(w)) = 4
        /\ \A j \in 2 .. 4 : Retryable(Trace(w)[j])
        /\ Trace(w)[3].sleep = 2
        /\ Trace(w)[4].sleep = 4

\* C7: an attempt failing with NotFound is the last of its language: the
\* worker proceeds to the next language without a backoff sleep, so a
\* language answering NotFound on its first attempt costs one adapter call.
C7_NotFoundSkipsLanguage ==
    \A w \in Workers : \A i \in 1 .. Len(Trace(w)) :
        (IsCall(Trace(w)[i]) /\ Trace(w)[i].class = "NotFound") =>
            /\ ThenNextLanguage(w, i, Trace(w)[i].li)
            /\ i = Len(Trace(w)) => workers[w].timer = 0
            /\ Trace(w)[i].attempt = 0 => Trace(w)[i - 1].ev = "acquire"

C7_Witness ==
    \E w \in Workers :
        /\ Len(Trace(w)) >= 4
        /\ IsCall(Trace(w)[2])
        /\ Trace(w)[2].class = "NotFound"
        /\ Trace(w)[2].attempt = 0
        /\ Trace(w)[3].ev = "acquire"
        /\ Trace(w)[3].li = 2
        /\ IsCall(Trace(w)[4])

\* C8: an adapter call returning an empty transcript list is the last
\* attempt of its language, as for NotFound.
C8_EmptySkipsLanguage ==
    \A w \in Workers : \A i \in 1 .. Len(Trace(w)) :
        (IsCall(Trace(w)[i]) /\ Trace(w)[i].class = "Empty") =>
            /\ ThenNextLanguage(w, i, Trace(w)[i].li)
            /\ i = Len(Trace(w)) => workers[w].timer = 0

\* The vocabulary check as specified: some whitespace-delimited word of the
\* text is, case-insensitively, a word of the list.
HasFlaggedWord(text) ==
    \E i \in 1 .. Len(text) : \E word \in profanityWords :
        ToLower(text[i]) = ToLower(word)

\* The first language's first k attempts fail with Transient and attempt
\* k+1 returns a non-empty transcript of one of the given categories.
FirstLanguageYields(trace, k, classes) ==
    /\ Len(trace) >= k + 2
    /\ trace[1].ev = "acquire"
    /\ \A j \in 2 .. (k + 1) : IsCall(trace[j]) /\ trace[j].class = "Transient"
    /\ IsCall(trace[k + 2])
    /\ trace[k + 2].class \in classes

SuccessAfter(w, k) ==
    /\ workers[w].response.Error = EmptyString
    /\ workers[w].response.Profanity = HasFlaggedWord(Trace(w)[k + 2].text)
    /\ NumCalls(Trace(w)) = k + 1
    /\ Len(Trace(w)) = k + 2
    /\ \A j \in 2 .. (k + 2) : Trace(w)[j].sleep = <<0, 2, 4>>[j - 1]

EveryLanguageNotFound(w) ==
    /\ NumCalls(Trace(w)) = Len(workers[w].languagesToTry)
    /\ \A i \in 1 .. Len(Trace(w)) :
          IsCall(Trace(w)[i]) => Trace(w)[i].class = "NotFound"

EndsOnForbidden(w) ==
    /\ Trace(w) # <<>>
    /\ Trace(w)[Len(Trace(w))].class = "Forbidden"

C10_NotFoundCategory ==
    \A w \in Workers : HasResult(w) =>
        /\ EveryLanguageNotFound(w) =>
              /\ workers[w].response.Error.tmpl = "NoCaptions"
              /\ workers[w].response.Profanity = FALSE
        /\ EndsOnForbidden(w) =>
              workers[w].response.Error.tmpl \in {"Private", "Unavailable", "Format"}

C10_Witness ==
    \E w \in Workers :
        /\ HasResult(w)
        /\ EveryLanguageNotFound(w)
        /\ Len(workers[w].languagesToTry) = Len(DefaultLanguages)

\* The tag of the i-th event of worker w's job.
TagAt(w, i) == workers[w].languagesToTry[Trace(w)[i].li]

\* The language indices of the events of a job's history, and of the
\* worker's position after them, go through the list from its first place
\* one place at a time.
TriedInListedOrder(w) ==
    /\ \A i \in 1 .. Len(Trace(w)) :
          /\ Trace(w)[i].li \in 1 .. Len(workers[w].languagesToTry)
          /\ Trace(w)[i].li =
                IF i = 1 THEN 1
                ELSE IF Trace(w)[i].ev = "acquire" THEN Trace(w)[i - 1].li + 1
                ELSE Trace(w)[i - 1].li
    /\ workers[w].pc = "acquire" =>
          workers[w].li = IF Trace(w) = <<>> THEN 1
                          ELSE Trace(w)[Len(Trace(w))].li + 1

NoTagTwice(list) ==
    Cardinality({list[i] : i \in 1 .. Len(list)}) = Len(list)

\* C11: a job requesting a single tag other than "en" is tried with exactly
\* that tag; a job requesting "en" is tried with the fixed list of 33 tags,
\* which starts with "en" and has no tag twice, in the listed order.
C11_FallbackList ==
    \A w \in Workers : workers[w].pc # "idle" =>
        LET requested == workers[w].job.Languages
            list == workers[w].languagesToTry
        IN  /\ (Len(requested) = 1 /\ requested[1] # "en") =>
                  /\ list = requested
                  /\ \A i \in 1 .. Len(Trace(w)) : TagAt(w, i) = requested[1]
            /\ requested = << "en" >> =>
                  /\ list = DefaultLanguages
                  /\ Len(list) = 33
                  /\ list[1] = "en"
                  /\ NoTagTwice(list)
            /\ TriedInListedOrder(w)

C11_Witness ==
    \E w \in Workers :
        /\ HasResult(w)
        /\ workers[w].job.Languages = << "en" >>
        /\ NumCalls(Trace(w)) = Len(DefaultLanguages)
        /\ TagAt(w, 1) = "en"
        /\ TagAt(w, 3) = "en-US"
        /\ TagAt(w, Len(Trace(w))) = "fi"

\* C12: a request that supplies an explicit language tag, whatever the
\* tag, is tried with exactly that tag; only a request without a language
\* tag gets the list of fallbacks.
C12_ExplicitTagNotExpanded ==
    \A w \in Workers : workers[w].pc # "idle" =>
        LET lang == handlers[workers[w].job.id].lang
        IN  IF lang # ""
            THEN workers[w].languagesToTry = << lang >>
            ELSE workers[w].languagesToTry = DefaultLanguages

\* The identifiers of the jobs waiting in the queue, oldest first.
QueuedIds == [i \in 1 .. Len(jobQueue) |-> jobQueue[i].id]

\* C13: the queue is first-in first-out and loses nothing: the jobs are
\* received in the order their sends completed, every accepted job not yet
\* received is still in the queue, no job is accepted or received twice,
\* and a received job is with exactly one worker or has been answered.
C13_FifoLossless ==
    LET accepted == queueLog.accepted
        dequeued == queueLog.dequeued
    IN  /\ Len(dequeued) <= Len(accepted)
        /\ dequeued = SubSeq(accepted, 1, Len(dequeued))
        /\ QueuedIds = SubSeq(accepted, Len(dequeued) + 1, Len(accepted))
        /\ \A i, j \in 1 .. Len(accepted) : accepted[i] = accepted[j] => i = j
        /\ \A h \in Requests :
              (handlers[h].pc # "start") <=> (\E i \in 1 .. Len(accepted) : accepted[i] = h)
        /\ \A i \in 1 .. Len(dequeued) :
              Cardinality({w \in Workers : workers[w].job.id = dequeued[i]})
                  + Len(delivered[dequeued[i]]) = 1

C13_Witness ==
    /\ Len(queueLog.dequeued) = maxWorkers
    /\ Len(queueLog.accepted) = QueueCap + 2
    /\ queueLog.accepted[QueueCap + 1] > queueLog.accepted[QueueCap + 2]
    /\ \E w \in Workers : workers[w].job.id = 1 /\ w # 1

\* A send to the queue of request h is pending and cannot complete.
SubmitBlocked(h) == handlers[h].pc = "start" /\ ~ENABLED Submit(h)

\* C14: the queue never holds more than its capacity of 100 jobs; a send
\* is blocked exactly while the queue is full, only a worker's receive
\* makes room again, and a job whose send has completed is in the queue or
\* has been received: it is neither rejected nor lost.
C14_Backpressure ==
    /\ [](/\ Len(jobQueue) <= 100
          /\ \A h \in Requests :
                /\ handlers[h].pc = "start" =>
                      (SubmitBlocked(h) <=> Len(jobQueue) = QueueCap)
                /\ handlers[h].pc # "start" =>
                      \/ \E i \in 1 .. Len(jobQueue) : jobQueue[i].id = h
                      \/ \E i \in 1 .. Len(queueLog.dequeued) : queueLog.dequeued[i] = h)
    /\ [][\A h \in Requests :
            (SubmitBlocked(h) /\ ~SubmitBlocked(h)') =>
                \/ handlers'[h].pc = "waiting"
                \/ \E w \in Workers :
                      /\ workers[w].pc = "idle"
                      /\ workers'[w].job = jobQueue[1]]_vars

C14_Witness ==
    /\ Len(jobQueue) = QueueCap
    /\ Len(queueLog.dequeued) = 1
    /\ handlers[QueueCap + 1].pc = "waiting"
    /\ jobQueue[QueueCap].id = QueueCap + 1
    /\ SubmitBlocked(QueueCap + 2)

\* C15: in every Result, flagged is true only when the failure is absent:
\* no Result has a failure and a flag computed from a transcript.
C15_FlaggedOnlyWithoutFailure ==
    /\ \A w \in Workers : HasResult(w) =>
          (workers[w].response.Profanity => workers[w].response.Error = EmptyString)
    /\ \A h \in Requests : \A i \in 1 .. Len(delivered[h]) :
          delivered[h][i].response.Profanity =>
              delivered[h][i].response.Error = EmptyString

\* The jobs received from the queue and not yet answered.
InFlight ==
    {queueLog.dequeued[i] : i \in 1 .. Len(queueLog.dequeued)}
        \ {h \in Requests : delivered[h] # <<>>}

\* The number of receives from the queue without an answer so far.
NumInFlight ==
    Cardinality({i \in 1 .. Len(queueLog.dequeued) :
                    delivered[queueLog.dequeued[i]] = <<>>})

\* C16: the pool has exactly 5 workers, at all times; each worker holds one
\* job at a time, from its receive to its answer, so at most 5 jobs are
\* received and not yet answered, and while all workers are busy the other
\* jobs wait in the queue.
C16_FixedPool ==
    /\ DOMAIN workers = 1 .. 5
    /\ NumInFlight <= 5
    /\ \A h \in InFlight :
          Cardinality({w \in Workers : workers[w].pc # "idle" /\ workers[w].job.id = h}) = 1
    /\ \A w \in Workers :
          /\ workers[w].pc # "idle" => workers[w].job.id \in InFlight
          /\ workers[w].pc = "idle" => workers[w].job = NoJob
          /\ ENABLED Take(w) => workers[w].pc = "idle"

C16_Witness ==
    /\ NumInFlight = maxWorkers
    /\ \A w \in Workers : workers[w].pc # "idle"
    /\ Len(jobQueue) >= QueueCap - maxWorkers

\* The number of acquisitions, and of languages with an adapter call, in a
\* job's history.
NumAcquires(trace) ==
    Cardinality({i \in 1 .. Len(trace) : trace[i].ev = "acquire"})

LanguagesCalled(trace) == {trace[i].li : i \in {j \in 1 .. Len(trace) : IsCall(trace[j])}}

\* C17: the rate limiter is acquired once for each language attempted,
\* right before the language's first adapter call and never for a retry:
\* a job has as many acquisitions as languages attempted, and a retry waits
\* for its backoff sleep only.
C17_OneAcquirePerLanguage ==
    \A w \in Workers :
        /\ \A i \in 1 .. Len(Trace(w)) :
              LET e == Trace(w)[i]
              IN  /\ e.ev = "acquire" =>
                        /\ ThenCalls(w, i, e.li, 0)
                        /\ i > 1 =>
                              /\ IsCall(Trace(w)[i - 1])
                              /\ Trace(w)[i - 1].li < e.li
                  /\ (IsCall(e) /\ e.attempt = 0) =>
                        /\ i > 1
                        /\ Trace(w)[i - 1].ev = "acquire"
                        /\ Trace(w)[i - 1].li = e.li
                  /\ (IsCall(e) /\ e.attempt > 0) =>
                        /\ IsCall(Trace(w)[i - 1])
                        /\ Trace(w)[i - 1].li = e.li
                        /\ Trace(w)[i - 1].attempt = e.attempt - 1
        /\ NumAcquires(Trace(w)) =
              Cardinality(LanguagesCalled(Trace(w)))
                  + (IF workers[w].pc = "call" /\ workers[w].attempt = 0 THEN 1 ELSE 0)
        /\ (workers[w].pc = "call" /\ workers[w].attempt > 0) =>
              (ENABLED Call(w) <=> workers[w].timer = 0)

C17_Witness ==
    \E w \in Workers :
        /\ HasResult(w)
        /\ NumAcquires(Trace(w)) = Len(DefaultLanguages)
        /\ NumCalls(Trace(w)) = maxRetries * Len(DefaultLanguages)

\* The failure categories of the caller's interface: of a Result's failure
\* message, and of the outcome of an adapter call, an empty list of
\* transcripts counting as NotFound.
CategoryOfFailure(error) ==
    CASE error.tmpl \in {"NoCaptions", "NoneFound"} -> "NotFound"
      [] error.tmpl \in {"Private", "Unavailable"} -> "Forbidden"
      [] OTHER -> "Other"

CategoryOfClass(class) ==
    CASE class \in {"NotFound", "Empty"} -> "NotFound"
      [] class = "Forbidden" -> "Forbidden"
      [] OTHER -> "Other"

NoTranscriptReturned(trace) ==
    \A i \in 1 .. Len(trace) :
        IsCall(trace[i]) => trace[i].class \notin {"Transcript", "Unformattable"}

\* C18: when no language yields a transcript, the category of the Result's
\* failure is that of the last adapter outcome of the job, an empty result
\* counting as NotFound, whatever the earlier outcomes were.
C18_LastOutcomeDecides ==
    \A w \in Workers :
        (HasResult(w) /\ Trace(w) # <<>> /\ NoTranscriptReturned(Trace(w))) =>
            CategoryOfFailure(workers[w].response.Error)
                = CategoryOfClass(Trace(w)[Len(Trace(w))].class)

\* C19: an adapter call that returns a non-empty transcript is the last
\* event of its job, whether the transcript can be formatted or not: no
\* adapter call and no acquisition of the rate limiter follows it, and the
\* worker goes on to answer.
C19_TranscriptEndsJob ==
    \A w \in Workers : \A i \in 1 .. Len(Trace(w)) :
        (IsCall(Trace(w)[i]) /\ Trace(w)[i].class \in {"Transcript", "Unformattable"})
            => ThenEnds(w, i)

\* C20: the worker's send of the Result never blocks: the job's response
\* channel has capacity 1 and is empty when the worker is ready to send, the
\* worker sends exactly one Result for the job, and only the handler that
\* created the channel receives from it.
C20_ResponseNeverBlocks ==
    /\ [](/\ \A h \in Requests : Len(respChan[h]) <= 1
          /\ \A w \in Workers : HasResult(w) =>
                LET slot == workers[w].job.Response
                IN  /\ respChan[slot] = <<>>
                    /\ delivered[slot] = <<>>
                    /\ ENABLED Respond(w)
                    /\ \A v \in Workers \ {w} : workers[v].job.Response # slot)
    /\ [][\A h \in Requests :
            /\ Len(respChan'[h]) > Len(respChan[h]) =>
                  /\ Len(delivered'[h]) = 1
                  /\ \E w \in Workers :
                        /\ HasResult(w)
                        /\ workers[w].job.Response = h
                        /\ workers'[w] = IdleWorker
            /\ Len(respChan'[h]) < Len(respChan[h]) =>
                  /\ handlers[h].pc = "waiting"
                  /\ handlers'[h].pc = "done"
                  /\ workers' = workers]_vars

C20_Witness ==
    \E g, h \in Requests : \E w \in Workers :
        /\ Len(respChan[g]) = RespChanCap
        /\ handlers[g].pc = "waiting"
        /\ HasResult(w)
        /\ workers[w].job.Response = h
        /\ workers[w].response.Error = FormatFailure
        /\ delivered[g][1].response.Error = EmptyString

\* The status code the caller's interface gives a failure category.
StatusOfCategory(category) ==
    CASE category = "NotFound" -> 404
      [] category = "Forbidden" -> 403
      [] OTHER -> 500

\* C22: the category of the failure chosen by the worker decides the status
\* of the answer: 404 for a not-found failure (last error "captions not
\* found", or no transcript in any language), 403 for a private or
\* unavailable video, and 500 for a generic failure only.
C22_CategoryDecidesStatus ==
    \A h \in Requests :
        (handlers[h].pc = "done" /\ handlers[h].body.Error # EmptyString) =>
            handlers[h].status = StatusOfCategory(CategoryOfFailure(handlers[h].body.Error))

====
